---- MODULE Spec2Model ----
(***************************************************************************)
(* serverless-lumigo: the plugin that wraps the handlers of a serverless   *)
(* service with the Lumigo tracer (src/src/index.js, class LumigoPlugin).  *)
(*                                                                         *)
(* Text is modelled as a sequence of atoms.  An atom is one of the         *)
(* separators "." and "/" (and the punctuation of generated code), or a    *)
(* piece of text that holds no separator.  Every string operation of the   *)
(* source that looks at "." or "/" is computed on these sequences.         *)
(***************************************************************************)
EXTENDS Integers, Sequences, FiniteSets, TLC

VARIABLES
    service,                \* this.serverless.service (runtime, functions, custom, package)
    packageJson,            \* what require(<servicePath>/package.json) yields
    requirements,           \* the requirements files on disk: file name -> text
    isNodeTracerInstalledMemo, \* this._isNodeTracerInstalled
    folder,                 \* files under <servicePath>/_lumigo: relative path -> content
    pc,                     \* position inside the running hook ("idle" between hooks)
    call,                   \* locals of the running hook
    trace,                  \* effects of the running (or last) hook, in order
    outcome,                \* how the last hook ended
    pre,                    \* the service when the running (or last) hook started
    execLog,                \* every command given to childProcess.execSync so far
    passes                  \* number of hooks started so far

vars == << service, packageJson, requirements, isNodeTracerInstalledMemo, folder,
           pc, call, trace, outcome, pre, execLog, passes >>

-----------------------------------------------------------------------------
(* Optional values: undefined is the empty set, a defined value v is {v}.  *)

None == {}

Some(v) == {v}

Get(o) == CHOOSE v \in o : TRUE

GetOr(o, d) == IF o = None THEN d ELSE Get(o)

-----------------------------------------------------------------------------
(* String primitives (JavaScript String.prototype)                         *)

DOT == "."

SLASH == "/"

Max(S) == CHOOSE x \in S : \A y \in S : y <= x

\* s.lastIndexOf(c), 1-based; 0 stands for JavaScript's -1
LastIndexOf(s, c) ==
    LET P == { i \in 1..Len(s) : s[i] = c }
    IN  IF P = {} THEN 0 ELSE Max(P)

\* s.substr(0, s.lastIndexOf(c)): a negative length yields the empty string
SubstrBeforeLast(s, c) ==
    LET i == LastIndexOf(s, c)
    IN  IF i = 0 THEN << >> ELSE SubSeq(s, 1, i - 1)

\* s.substr(s.lastIndexOf(c) + 1): the whole string when c does not occur
SubstrAfterLast(s, c) ==
    SubSeq(s, LastIndexOf(s, c) + 1, Len(s))

\* s.substr(0, s.lastIndexOf(c) + 1)
SubstrThroughLast(s, c) ==
    SubSeq(s, 1, LastIndexOf(s, c))

\* s.startsWith(p)
StartsWith(s, p) ==
    /\ Len(p) <= Len(s)
    /\ SubSeq(s, 1, Len(p)) = p

\* s.split(a).join(b) for single-atom a and b
ReplaceAll(s, a, b) ==
    [ i \in 1..Len(s) |-> IF s[i] = a THEN b ELSE s[i] ]

-----------------------------------------------------------------------------
(* Node's path module (posix)                                              *)

\* path.basename(p): trailing separators are dropped, then the text after
\* the last remaining separator is returned
Basename(p) ==
    LET E == { i \in 1..Len(p) : p[i] # SLASH }
    IN  IF E = {} THEN << >>
        ELSE LET e == Max(E)
                 B == { i \in 1..e : p[i] = SLASH }
                 b == IF B = {} THEN 0 ELSE Max(B)
             IN  SubSeq(p, b + 1, e)

\* path.dirname(p)
Dirname(p) ==
    LET hasRoot == Len(p) > 0 /\ p[1] = SLASH
        none    == IF hasRoot THEN << SLASH >> ELSE << DOT >>
        E       == { i \in 2..Len(p) : p[i] # SLASH }
    IN  IF E = {} THEN none
        ELSE LET P == { i \in 2..(Max(E) - 1) : p[i] = SLASH }
             IN  IF P = {} THEN none
                 ELSE IF hasRoot /\ Max(P) = 2 THEN << SLASH, SLASH >>
                 ELSE SubSeq(p, 1, Max(P) - 1)

\* the segments of p between separators, empty ones included
RECURSIVE Segments(_)
Segments(p) ==
    LET S == { i \in 1..Len(p) : p[i] = SLASH }
    IN  IF S = {} THEN << p >>
        ELSE Append(Segments(SubSeq(p, 1, Max(S) - 1)), SubSeq(p, Max(S) + 1, Len(p)))

\* normalizeString: "." and empty segments are dropped, ".." removes the
\* segment before it (or is kept when a relative path has none to remove)
RECURSIVE Resolve(_, _, _)
Resolve(segs, acc, absolute) ==
    IF segs = << >> THEN acc
    ELSE LET s == Head(segs)
             r == Tail(segs)
         IN  IF s = << >> \/ s = << DOT >> THEN Resolve(r, acc, absolute)
             ELSE IF s = << DOT, DOT >>
                  THEN IF acc # << >> /\ acc[Len(acc)] # << DOT, DOT >>
                            THEN Resolve(r, SubSeq(acc, 1, Len(acc) - 1), absolute)
                       ELSE IF absolute THEN Resolve(r, acc, absolute)
                       ELSE Resolve(r, Append(acc, s), absolute)
             ELSE Resolve(r, Append(acc, s), absolute)

RECURSIVE JoinSegments(_)
JoinSegments(segs) ==
    IF segs = << >> THEN << >>
    ELSE IF Len(segs) = 1 THEN segs[1]
    ELSE segs[1] \o << SLASH >> \o JoinSegments(Tail(segs))

\* path.normalize(p)
Normalize(p) ==
    IF p = << >> THEN << DOT >>
    ELSE LET absolute == p[1] = SLASH
             trailing == p[Len(p)] = SLASH
             body     == JoinSegments(Resolve(Segments(p), << >>, absolute))
             text     == IF body = << >> /\ ~absolute THEN << DOT >> ELSE body
             tail     == IF body # << >> /\ trailing THEN << SLASH >>
                         ELSE IF body = << >> /\ ~absolute /\ trailing THEN << SLASH >>
                         ELSE << >>
         IN  (IF absolute THEN << SLASH >> ELSE << >>) \o text \o tail

\* path.join(a, b): the non-empty arguments joined by "/" and normalized
PathJoin(a, b) ==
    IF a = << >> /\ b = << >> THEN << DOT >>
    ELSE IF a = << >> THEN Normalize(b)
    ELSE IF b = << >> THEN Normalize(a)
    ELSE Normalize(a \o << SLASH >> \o b)

-----------------------------------------------------------------------------
(* Bounds of the model                                                     *)

\* hooks run on one plugin instance
MaxPasses == 2

\* requirements files that are missing or do not mention the tracer
MaxBadFiles == 1

\* atoms of a handler string in the handler-parsing specification
MaxLen == 4

-----------------------------------------------------------------------------
(* The service: serverless.service as the plugin reads it                  *)

\* a declaration: none of the fixtures has layers or an environment
Fn(handler, lumigo) ==
    [ handler |-> handler, lumigo |-> lumigo, layers |-> None, environment |-> None ]

\* the opt-out of a declaration: lumigo: { enabled: false }
Disabled == Some([ enabled |-> FALSE ])

Registry(names, handlers, flags) ==
    [ names     |-> names,
      functions |-> [ n \in { names[i] : i \in 1..Len(names) } |->
                        LET i == CHOOSE j \in 1..Len(names) : names[j] = n
                        IN  Fn(handlers[i], flags[i]) ] ]

\* the declarations the handlers of the repository's tests are taken from
Registries ==
    { Registry(<< >>, << >>, << >>),
      Registry(<< <<"hello", DOT, "world">>, <<"pack">>, <<"skippy">> >>,
               << <<"hello", DOT, "world", DOT, "handler">>,
                  <<"foo", DOT, "bar", SLASH, "zoo", DOT, "handler">>,
                  <<"will", DOT, "skip">> >>,
               << None, None, Disabled >>),
      Registry(<< <<"foo">>, <<"bar">> >>,
               << <<"foo_bar", DOT, "handler">>, <<"foo_bar", DOT, "handler">> >>,
               << None, None >>),
      Registry(<< <<"hello">>, <<"world">> >>,
               << <<"functions", SLASH, "hello", SLASH, "hello", DOT, "world">>,
                  <<"functions", SLASH, "world", SLASH, "world", DOT, "handler">> >>,
               << None, None >>),
      Registry(<< <<"odd">>, <<"plain">> >>,
               << <<"lib", DOT, "v2", SLASH, "main">>, <<"index">> >>,
               << None, None >>) }

\* custom.pythonRequirements.fileName
RequirementsDev == <<"requirements-dev", DOT, "txt">>

RequirementsTxt == <<"requirements", DOT, "txt">>

\* service.package
Packages ==
    { None,
      Some([ individually |-> FALSE, include |-> None ]),
      Some([ individually |-> TRUE,  include |-> None ]),
      Some([ individually |-> TRUE,  include |-> Some(<< <<"node_modules/**/*">> >>) ]) }

\* the requirements files a project may hold
RequirementsFiles ==
    { RequirementsTxt, RequirementsDev,
      <<"functions", SLASH, "hello", SLASH, "requirements", DOT, "txt">>,
      <<"functions", SLASH, "world", SLASH, "requirements", DOT, "txt">> }

-----------------------------------------------------------------------------
(* Pure parts of LumigoPlugin                                              *)

\* this.folderPath, relative to serverless.config.servicePath
FolderPath == <<"_lumigo">>

\* the glob pushed on package.include
IncludeGlob == <<"_lumigo/*">>

Ev(op, arg) == [ op |-> op, arg |-> arg ]

\* a name filter that lets every declared function through
IncludesEveryName(functionNames, localName) == TRUE

\* functionNames.includes(localName); functionNames holds optional names
\* ([this.options.function] holds undefined when no function was given)
Includes(functionNames, localName) ==
    \E i \in 1..Len(functionNames) : functionNames[i] = Some(localName)

\* service.getAllFunctions()
GetAllFunctions(svc) == svc.names

\* getFunctionsToWrap that forgets to empty the list on an unsupported runtime
GetFunctionsToWrapAnyRuntime(svc, functionNames) ==
    LET names     == IF functionNames = None
                     THEN [ i \in 1..Len(GetAllFunctions(svc)) |->
                              Some(GetAllFunctions(svc)[i]) ]
                     ELSE Get(functionNames)
        kept      == SelectSeq(GetAllFunctions(svc), LAMBDA n : Includes(names, n))
        functions == [ i \in 1..Len(kept) |->
                         [ localName |-> kept[i],
                           handler   |-> svc.functions[kept[i]].handler,
                           lumigo    |-> svc.functions[kept[i]].lumigo ] ]
    IN  [ runtime   |-> IF StartsWith(svc.runtime, <<"nodejs">>) THEN "nodejs"
                        ELSE IF StartsWith(svc.runtime, <<"python", "3">>) THEN "python"
                        ELSE "unsupported",
          functions |-> functions ]

\* getFunctionsToWrap(service, functionNames)
GetFunctionsToWrap(svc, functionNames) ==
    LET names     == IF functionNames = None
                     THEN [ i \in 1..Len(GetAllFunctions(svc)) |->
                              Some(GetAllFunctions(svc)[i]) ]
                     ELSE Get(functionNames)
        kept      == SelectSeq(GetAllFunctions(svc), LAMBDA n : Includes(names, n))
        functions == [ i \in 1..Len(kept) |->
                         [ localName |-> kept[i],
                           handler   |-> svc.functions[kept[i]].handler,
                           lumigo    |-> svc.functions[kept[i]].lumigo ] ]
    IN  IF StartsWith(svc.runtime, <<"nodejs">>)
             THEN [ runtime |-> "nodejs", functions |-> functions ]
        ELSE IF StartsWith(svc.runtime, <<"python", "3">>)
             THEN [ runtime |-> "python", functions |-> functions ]
        ELSE [ runtime |-> "unsupported", functions |-> << >> ]

\* isLumigoNodejsInstalled that never finds the tracer in the manifest
IsLumigoNodejsInstalledNever == FALSE

\* isLumigoNodejsInstalled(): a manifest that cannot be read counts as "no"
IsLumigoNodejsInstalled == packageJson = "hasTracer"

\* the getter without its first look at the manifest: "no" until something is
\* remembered
IsNodeTracerInstalledUnread ==
    isNodeTracerInstalledMemo # None /\ Get(isNodeTracerInstalledMemo)

\* get isNodeTracerInstalled(): the value, memoized at the first read
IsNodeTracerInstalled ==
    IF isNodeTracerInstalledMemo # None THEN Get(isNodeTracerInstalledMemo)
    ELSE IsLumigoNodejsInstalled

\* String.prototype.toLowerCase on the package manager names of the model
ToLowerCase(s) ==
    IF s = "Yarn" THEN "yarn" ELSE IF s = "NPM" THEN "npm" ELSE s

\* get nodePackageManager()
NodePackageManager(svc) == ToLowerCase(GetOr(svc.nodePackageManager, "npm"))

\* installLumigoNodejs that falls back to npm for a name it does not know
InstallCommandDefaultsToNpm(pm) ==
    IF pm = "yarn" THEN Some(<<"yarn add @lumigo/tracer@latest">>)
    ELSE Some(<<"npm install --no-save @lumigo/tracer@latest">>)

\* installLumigoNodejs: the command for a package manager, None when unsupported
InstallCommand(pm) ==
    IF pm = "npm" THEN Some(<<"npm install --no-save @lumigo/tracer@latest">>)
    ELSE IF pm = "yarn" THEN Some(<<"yarn add @lumigo/tracer@latest">>)
    ELSE None

\* uninstallLumigoNodejs: the command for a package manager, None when unsupported
UninstallCommand(pm) ==
    IF pm = "npm" THEN Some(<<"npm uninstall @lumigo/tracer">>)
    ELSE IF pm = "yarn" THEN Some(<<"yarn remove @lumigo/tracer">>)
    ELSE None

\* getNodeTracerParameters(token, edgeHost); edgeHost is skipped when falsy
GetNodeTracerParameters(token, edgeHost) ==
    LET configuration == << <<"token", ":", " ", "'">> \o token \o <<"'">> >>
        withEdge      == IF edgeHost # None /\ Get(edgeHost) # << >>
                         THEN Append(configuration,
                                     <<"edgeHost", ":", " ", "'">> \o Get(edgeHost) \o <<"'">>)
                         ELSE configuration
    IN  IF Len(withEdge) = 1 THEN withEdge[1]
        ELSE withEdge[1] \o <<",">> \o withEdge[2]

\* the handler string a createWrapped*Function returns
WrappedHandler(newFilePath, handlerFuncName) ==
    SubstrThroughLast(newFilePath, DOT) \o handlerFuncName

\* the module path and function name createWrappedNodejsFunction reads from
\* func.handler
NodejsModulePath(h) == SubstrBeforeLast(h, DOT)

HandlerFuncName(h) == SubstrAfterLast(Basename(h), DOT)

\* the module path with String.prototype.replace("/", "."): the first "/" only
PythonModulePathFirstSlash(h) ==
    LET m == SubstrBeforeLast(h, DOT)
        S == { i \in 1..Len(m) : m[i] = SLASH }
    IN  [ i \in 1..Len(m) |->
            IF S # {} /\ i = (CHOOSE j \in S : \A k \in S : j <= k) THEN DOT ELSE m[i] ]

\* the module path createWrappedPythonFunction reads from func.handler
PythonModulePath(h) == ReplaceAll(SubstrBeforeLast(h, DOT), SLASH, DOT)

\* a wrapper path that does not depend on the local name of the function
WrapperPathFixedName(localName, ext) == PathJoin(FolderPath, << "wrapper", DOT, ext >>)

\* path.relative(servicePath, path.join(this.folderPath, fileName))
WrapperPath(localName, ext) == PathJoin(FolderPath, localName \o << DOT, ext >>)

\* createWrappedNodejsFunction(func, token, edgeHost): the file it writes,
\* the text of the file and the handler it returns
CreateWrappedNodejsFunction(func, token, edgeHost) ==
    LET handlerModulePath == NodejsModulePath(func.handler)
        handlerFuncName   == HandlerFuncName(func.handler)
        newFilePath       == WrapperPath(func.localName, "js")
    IN  [ filePath |-> newFilePath,
          content  |-> [ lang     |-> "js",
                         tracer   |-> GetNodeTracerParameters(token, edgeHost),
                         imports  |-> << DOT, DOT, SLASH >> \o handlerModulePath,
                         imported |-> handlerFuncName,
                         exported |-> handlerFuncName ],
          handler  |-> WrappedHandler(newFilePath, handlerFuncName) ]

\* createWrappedPythonFunction(func, token)
CreateWrappedPythonFunction(func, token) ==
    LET handlerModulePath == PythonModulePath(func.handler)
        handlerFuncName   == HandlerFuncName(func.handler)
        newFilePath       == WrapperPath(func.localName, "py")
    IN  [ filePath |-> newFilePath,
          content  |-> [ lang     |-> "py",
                         tracer   |-> <<"token", "=", "'">> \o token \o <<"'">>,
                         imports  |-> handlerModulePath,
                         imported |-> handlerFuncName,
                         alias    |-> <<"userHandler">>,
                         exported |-> handlerFuncName,
                         params   |-> << <<"event">>, <<"context">> >>,
                         returns  |-> <<"userHandler", "(", "event", ",", " ",
                                        "context", ")">> ],
          handler  |-> WrappedHandler(newFilePath, handlerFuncName) ]

\* ensureLumigoPythonIsInstalled that forgets the override file name when
\* functions are packaged individually
RequirementsToCheckPerFunction(svc) ==
    LET packageIndividually ==
            svc.package # None /\ Get(svc.package).individually
        functions == GetFunctionsToWrap(svc, None).functions
    IN  IF packageIndividually
        THEN [ i \in 1..Len(functions) |->
                 PathJoin(Dirname(functions[i].handler), RequirementsTxt) ]
        ELSE << GetOr(svc.requirementsFileName, RequirementsTxt) >>

\* ensureLumigoPythonIsInstalled that looks at the functions of the running
\* pass only, not at every declared function
RequirementsToCheckOfPass(svc) ==
    LET packageIndividually ==
            svc.package # None /\ Get(svc.package).individually
        functions == call.functions
    IN  IF packageIndividually
        THEN [ i \in 1..Len(functions) |->
                 GetOr(svc.requirementsFileName,
                       PathJoin(Dirname(functions[i].handler), RequirementsTxt)) ]
        ELSE << GetOr(svc.requirementsFileName, RequirementsTxt) >>

\* ensureLumigoPythonIsInstalled: the file names it hands to
\* ensureTracerInstalled, in order
RequirementsToCheck(svc) ==
    LET packageIndividually ==
            svc.package # None /\ Get(svc.package).individually
        functions == GetFunctionsToWrap(svc, None).functions
    IN  IF packageIndividually
        THEN [ i \in 1..Len(functions) |->
                 GetOr(svc.requirementsFileName,
                       PathJoin(Dirname(functions[i].handler), RequirementsTxt)) ]
        ELSE << GetOr(svc.requirementsFileName, RequirementsTxt) >>

\* ensureTracerInstalled that is content with the file being there
EnsureTracerInstalledExistsOnly(fileName) ==
    IF fileName \notin DOMAIN requirements THEN "not found" ELSE "ok"

\* ensureTracerInstalled(fileName): "ok", or what it throws
EnsureTracerInstalled(fileName) ==
    IF fileName \notin DOMAIN requirements THEN "not found"
    ELSE IF requirements[fileName] # "lumigo_tracer" THEN "not installed"
    ELSE "ok"

\* the effects of ensureTracerInstalled(fileName)
EnsureTracerEvents(fileName) ==
    IF fileName \notin DOMAIN requirements
    THEN << Ev("pathExistsSync", fileName) >>
    ELSE << Ev("pathExistsSync", fileName), Ev("readFile", fileName) >>

\* the files ensureLumigoPythonIsInstalled gets to: all of them, or those up
\* to and including the first that makes it throw
RECURSIVE CheckedPrefix(_)
CheckedPrefix(files) ==
    IF files = << >> THEN << >>
    ELSE IF EnsureTracerInstalled(Head(files)) # "ok" THEN << Head(files) >>
    ELSE << Head(files) >> \o CheckedPrefix(Tail(files))

RECURSIVE EventsOf(_)
EventsOf(files) ==
    IF files = << >> THEN << >>
    ELSE EnsureTracerEvents(Head(files)) \o EventsOf(Tail(files))

-----------------------------------------------------------------------------
(* The hooks, one action per step between two effects                      *)

NoCall == [ op |-> "none", runtime |-> "unsupported", functions |-> << >>,
            i |-> 0, token |-> << >>, edgeHost |-> None, handler |-> << >>,
            functionNames |-> None ]

\* the hook returns
Return ==
    /\ pc' = "idle"
    /\ outcome' = "returned"

\* the hook rejects with an error
Throw(what) ==
    /\ pc' = "idle"
    /\ outcome' = what

\* wrapFunctions(functionNames) up to its first effect: lines 61-80
WrapFunctions(functionNames) ==
    LET toWrap == GetFunctionsToWrap(service, functionNames)
    IN  /\ pc = "idle"
        /\ passes < MaxPasses
        /\ passes' = passes + 1
        /\ trace' = << >>
        /\ pre' = service
        /\ IF Len(toWrap.functions) = 0
           THEN /\ Return
                /\ call' = [ NoCall EXCEPT !.op = "wrap", !.functionNames = functionNames ]
           ELSE IF service.token = None
           THEN /\ Throw("Unable to find token")
                /\ call' = [ NoCall EXCEPT !.op = "wrap", !.functionNames = functionNames,
                                           !.runtime = toWrap.runtime,
                                           !.functions = toWrap.functions ]
           ELSE /\ pc' = IF toWrap.runtime = "nodejs" THEN "install"
                         ELSE IF toWrap.runtime = "python" THEN "ensure"
                         ELSE "include"
                /\ outcome' = "running"
                /\ call' = [ op |-> "wrap", runtime |-> toWrap.runtime,
                             functions |-> toWrap.functions, i |-> 1,
                             token |-> Get(service.token),
                             edgeHost |-> service.edgeHost, handler |-> << >>,
                             functionNames |-> functionNames ]
        /\ UNCHANGED << service, packageJson, requirements,
                        isNodeTracerInstalledMemo, folder, execLog >>

\* the hook after:package:initialize
AfterPackageInitialize == WrapFunctions(None)

\* the hook after:deploy:function:initialize, for each options.function
AfterDeployFunctionInitialize ==
    \E f \in { None } \cup { Some(service.names[i]) : i \in 1..Len(service.names) } :
        WrapFunctions(Some(<< f >>))

\* after the loop of a runtime branch: the first function, or the include list
AfterInstall == IF Len(call.functions) = 0 THEN "include" ELSE "wrap"

\* installLumigoNodejs()
InstallLumigoNodejs ==
    /\ pc = "install"
    /\ isNodeTracerInstalledMemo' = Some(IsNodeTracerInstalled)
    /\ IF IsNodeTracerInstalled
       THEN /\ pc' = AfterInstall
            /\ UNCHANGED << trace, execLog, outcome >>
       ELSE IF InstallCommand(NodePackageManager(service)) = None
       THEN /\ Throw("No Node.js package manager found")
            /\ UNCHANGED << trace, execLog >>
       ELSE LET installCommand == Get(InstallCommand(NodePackageManager(service)))
            IN  /\ trace' = Append(trace, Ev("execSync", installCommand))
                /\ execLog' = Append(execLog, installCommand)
                /\ \/ /\ pc' = AfterInstall
                      /\ UNCHANGED outcome
                   \/ Throw("execSync failed")
    /\ UNCHANGED << service, packageJson, requirements, folder, call, pre, passes >>

\* ensureLumigoPythonIsInstalled()
EnsureLumigoPythonIsInstalled ==
    LET files   == RequirementsToCheck(service)
        checked == CheckedPrefix(files)
        last    == IF checked = << >> THEN "ok"
                   ELSE EnsureTracerInstalled(checked[Len(checked)])
    IN  /\ pc = "ensure"
        /\ trace' = trace \o EventsOf(checked)
        /\ IF last = "ok"
           THEN /\ pc' = AfterInstall
                /\ UNCHANGED outcome
           ELSE Throw(last)
        /\ UNCHANGED << service, packageJson, requirements, isNodeTracerInstalledMemo,
                        folder, call, pre, execLog, passes >>

\* what the create function of the running branch computes for the i-th function
Wrapped ==
    IF call.runtime = "nodejs"
    THEN CreateWrappedNodejsFunction(call.functions[call.i], call.token, call.edgeHost)
    ELSE CreateWrappedPythonFunction(call.functions[call.i], call.token)

\* fs.outputFile(filePath, wrappedFunction)
OutputFile(filePath, content) ==
    [ f \in (DOMAIN folder) \cup { filePath } |->
        IF f = filePath THEN content ELSE folder[f] ]

\* the handler assigned before the write is awaited: it is rewritten even
\* when fs.outputFile rejects
CreateWrappedFunctionAssignsFirst ==
    /\ pc = "wrap"
    /\ trace' = Append(trace, Ev("outputFile", Wrapped.filePath))
    /\ service' = [ service EXCEPT
                      !.functions[call.functions[call.i].localName].handler =
                          Wrapped.handler ]
    /\ \/ /\ folder' = OutputFile(Wrapped.filePath, Wrapped.content)
          /\ call' = [ call EXCEPT !.handler = Wrapped.handler ]
          /\ pc' = "assign"
          /\ UNCHANGED outcome
       \/ /\ Throw("outputFile failed")
          /\ UNCHANGED << folder, call >>
    /\ UNCHANGED << packageJson, requirements, isNodeTracerInstalledMemo,
                    pre, execLog, passes >>

\* createWrappedNodejsFunction / createWrappedPythonFunction for the i-th
\* function: the file is written, or fs.outputFile rejects
CreateWrappedFunction ==
    /\ pc = "wrap"
    /\ trace' = Append(trace, Ev("outputFile", Wrapped.filePath))
    /\ \/ /\ folder' = OutputFile(Wrapped.filePath, Wrapped.content)
          /\ call' = [ call EXCEPT !.handler = Wrapped.handler ]
          /\ pc' = "assign"
          /\ UNCHANGED outcome
       \/ /\ Throw("outputFile failed")
          /\ UNCHANGED << folder, call >>
    /\ UNCHANGED << service, packageJson, requirements, isNodeTracerInstalledMemo,
                    pre, execLog, passes >>

\* the assignment made under the name of the wrapper file, which declares a
\* function the registry did not hold
SetHandlerUnderFileName ==
    LET localName == call.functions[call.i].localName
        fileName  == Basename(Wrapped.filePath)
        names     == { service.names[k] : k \in 1..Len(service.names) }
    IN  /\ pc = "assign"
        /\ service' = [ service EXCEPT
                          !.names = IF fileName \in names THEN @ ELSE Append(@, fileName),
                          !.functions = [ n \in names \cup { fileName } |->
                                            IF n = fileName
                                            THEN Fn(call.handler, None)
                                            ELSE service.functions[n] ] ]
        /\ trace' = Append(trace, Ev("setHandler", localName))
        /\ call' = [ call EXCEPT !.i = call.i + 1 ]
        /\ pc' = IF call.i < Len(call.functions) THEN "wrap" ELSE "include"
        /\ UNCHANGED << packageJson, requirements, isNodeTracerInstalledMemo, folder,
                        outcome, pre, execLog, passes >>

\* the loop left one function early: the last function of the pass is not
\* wrapped before the include list is updated
SetHandlerStopsEarly ==
    LET localName == call.functions[call.i].localName
    IN  /\ pc = "assign"
        /\ service' = [ service EXCEPT !.functions[localName].handler = call.handler ]
        /\ trace' = Append(trace, Ev("setHandler", localName))
        /\ call' = [ call EXCEPT !.i = call.i + 1 ]
        /\ pc' = IF call.i + 1 < Len(call.functions) THEN "wrap" ELSE "include"
        /\ UNCHANGED << packageJson, requirements, isNodeTracerInstalledMemo, folder,
                        outcome, pre, execLog, passes >>

\* this.serverless.service.functions[func.localName].handler = handler
SetHandler ==
    LET localName == call.functions[call.i].localName
    IN  /\ pc = "assign"
        /\ service' = [ service EXCEPT !.functions[localName].handler = call.handler ]
        /\ trace' = Append(trace, Ev("setHandler", localName))
        /\ call' = [ call EXCEPT !.i = call.i + 1 ]
        /\ pc' = IF call.i < Len(call.functions) THEN "wrap" ELSE "include"
        /\ UNCHANGED << packageJson, requirements, isNodeTracerInstalledMemo, folder,
                        outcome, pre, execLog, passes >>

\* the include list replaced by the glob instead of extended with it
UpdateIncludeOverwrites ==
    /\ pc = "include"
    /\ IF service.package # None
       THEN /\ service' = [ service EXCEPT !.package =
                   Some([ Get(service.package) EXCEPT
                            !.include = Some(<< IncludeGlob >>) ]) ]
            /\ trace' = Append(trace, Ev("setInclude", IncludeGlob))
       ELSE UNCHANGED << service, trace >>
    /\ Return
    /\ UNCHANGED << packageJson, requirements, isNodeTracerInstalledMemo, folder,
                    call, pre, execLog, passes >>

\* the glob pushed only on a list that does not hold it yet
UpdateIncludeOnce ==
    /\ pc = "include"
    /\ IF service.package # None
       THEN LET include == GetOr(Get(service.package).include, << >>)
                held    == \E i \in 1..Len(include) : include[i] = IncludeGlob
            IN  /\ service' = [ service EXCEPT !.package =
                      Some([ Get(service.package) EXCEPT
                               !.include = Some(IF held THEN include
                                                ELSE Append(include, IncludeGlob)) ]) ]
                /\ trace' = Append(trace, Ev("setInclude", IncludeGlob))
       ELSE UNCHANGED << service, trace >>
    /\ Return
    /\ UNCHANGED << packageJson, requirements, isNodeTracerInstalledMemo, folder,
                    call, pre, execLog, passes >>

\* wrapFunctions, lines 114-118: package.include gets the glob
UpdateInclude ==
    /\ pc = "include"
    /\ IF service.package # None
       THEN LET include == GetOr(Get(service.package).include, << >>)
            IN  /\ service' = [ service EXCEPT !.package =
                      Some([ Get(service.package) EXCEPT
                               !.include = Some(Append(include, IncludeGlob)) ]) ]
                /\ trace' = Append(trace, Ev("setInclude", IncludeGlob))
       ELSE UNCHANGED << service, trace >>
    /\ Return
    /\ UNCHANGED << packageJson, requirements, isNodeTracerInstalledMemo, folder,
                    call, pre, execLog, passes >>

\* the cleanup that uninstalls on nodejs without removing the folder first
AfterCreateDeploymentArtifactsUninstallsFirst ==
    LET toWrap == GetFunctionsToWrap(service, None)
    IN  /\ pc = "idle"
        /\ passes < MaxPasses
        /\ passes' = passes + 1
        /\ trace' = << >>
        /\ pre' = service
        /\ call' = [ NoCall EXCEPT !.op = "cleanup", !.runtime = toWrap.runtime,
                                   !.functions = toWrap.functions ]
        /\ IF Len(toWrap.functions) = 0
           THEN Return
           ELSE /\ pc' = IF toWrap.runtime = "nodejs" THEN "uninstall" ELSE "clean"
                /\ outcome' = "running"
        /\ UNCHANGED << service, packageJson, requirements,
                        isNodeTracerInstalledMemo, folder, execLog >>

\* the hook after:package:createDeploymentArtifacts, up to its first effect
AfterCreateDeploymentArtifacts ==
    LET toWrap == GetFunctionsToWrap(service, None)
    IN  /\ pc = "idle"
        /\ passes < MaxPasses
        /\ passes' = passes + 1
        /\ trace' = << >>
        /\ pre' = service
        /\ call' = [ NoCall EXCEPT !.op = "cleanup", !.runtime = toWrap.runtime,
                                   !.functions = toWrap.functions ]
        /\ IF Len(toWrap.functions) = 0
           THEN Return
           ELSE /\ pc' = "clean"
                /\ outcome' = "running"
        /\ UNCHANGED << service, packageJson, requirements,
                        isNodeTracerInstalledMemo, folder, execLog >>

\* cleanFolder that removes nothing
CleanFolderKeepsFiles ==
    /\ pc = "clean"
    /\ trace' = Append(trace, Ev("remove", FolderPath))
    /\ IF call.runtime = "nodejs"
       THEN /\ pc' = "uninstall"
            /\ UNCHANGED outcome
       ELSE Return
    /\ UNCHANGED << service, packageJson, requirements, isNodeTracerInstalledMemo,
                    folder, call, pre, execLog, passes >>

\* cleanFolder(): fs.remove(this.folderPath)
CleanFolder ==
    /\ pc = "clean"
    /\ folder' = << >>
    /\ trace' = Append(trace, Ev("remove", FolderPath))
    /\ IF call.runtime = "nodejs"
       THEN /\ pc' = "uninstall"
            /\ UNCHANGED outcome
       ELSE Return
    /\ UNCHANGED << service, packageJson, requirements, isNodeTracerInstalledMemo,
                    call, pre, execLog, passes >>

\* uninstallLumigoNodejs()
UninstallLumigoNodejs ==
    /\ pc = "uninstall"
    /\ isNodeTracerInstalledMemo' = Some(IsNodeTracerInstalled)
    /\ IF IsNodeTracerInstalled
       THEN /\ Return
            /\ UNCHANGED << trace, execLog >>
       ELSE IF UninstallCommand(NodePackageManager(service)) = None
       THEN /\ Throw("No Node.js package manager found")
            /\ UNCHANGED << trace, execLog >>
       ELSE LET uninstallCommand == Get(UninstallCommand(NodePackageManager(service)))
            IN  /\ trace' = Append(trace, Ev("execSync", uninstallCommand))
                /\ execLog' = Append(execLog, uninstallCommand)
                /\ \/ Return
                   \/ Throw("execSync failed")
    /\ UNCHANGED << service, packageJson, requirements, folder, call, pre, passes >>

-----------------------------------------------------------------------------
(* The specifications                                                      *)

\* the state right after new LumigoPlugin(serverless, options)
Constructed ==
    /\ isNodeTracerInstalledMemo = None
    /\ folder = << >>
    /\ pc = "idle"
    /\ call = NoCall
    /\ trace = << >>
    /\ outcome = "none"
    /\ pre = service
    /\ execLog = << >>
    /\ passes = 0

\* custom.lumigo.useLayers is part of the configuration; no line of the
\* plugin reads it
Service(runtime, registry, token, edgeHost, pm, fileName, package, useLayers) ==
    [ runtime |-> runtime, names |-> registry.names, functions |-> registry.functions,
      token |-> token, edgeHost |-> edgeHost, nodePackageManager |-> pm,
      requirementsFileName |-> fileName, package |-> package,
      useLayers |-> useLayers ]

\* the requirements files on disk: all of RequirementsFiles mention the
\* tracer but for the files of bad, which are missing or do not mention it
Disk(bad, text) ==
    [ f \in { g \in RequirementsFiles : g \notin bad \/ text = "some_other_package" } |->
        IF f \in bad THEN text ELSE "lumigo_tracer" ]

\* custom.lumigo.token with custom.lumigo.edgeHost
Credentials ==
    { << None, None >>, << Some(<< >>), None >>,
      << Some(<<"test-token">>), None >>,
      << Some(<<"test-token">>), Some(<<"edge-host">>) >> }

\* package.json with custom.lumigo.nodePackageManager
NodeSetups ==
    { << "hasTracer", None >>, << "unreadable", None >>, << "noTracer", None >>,
      << "noTracer", Some("Yarn") >>, << "noTracer", Some("whatever") >>,
      << "hasTracer", Some("whatever") >> }

\* a project on a nodejs runtime: no requirements file is read
InitNodejs ==
    /\ \E registry \in Registries, cred \in Credentials, setup \in NodeSetups,
          package \in Packages :
            /\ service = Service(<<"nodejs", "12", DOT, "x">>, registry, cred[1], cred[2],
                                 setup[2], None, package, None)
            /\ packageJson = setup[1]
    /\ requirements = Disk({}, "missing")

\* a project on a python3 runtime: the manifest is never asked for the tracer
InitPython ==
    /\ \E registry \in Registries, cred \in Credentials,
          fileName \in { None, Some(RequirementsDev) }, package \in Packages :
            service = Service(<<"python", "3", DOT, "7">>, registry, cred[1], cred[2],
                              None, fileName, package, None)
    /\ packageJson = "noTracer"
    /\ \E bad \in { b \in SUBSET RequirementsFiles : Cardinality(b) <= MaxBadFiles },
          text \in { "missing", "some_other_package" } :
            requirements = Disk(bad, text)

\* a project on a runtime the plugin does not support
InitUnsupported ==
    /\ \E runtime \in { <<"python", "2", DOT, "7">>, <<"java", "8">> },
          registry \in Registries, cred \in Credentials, package \in Packages :
            service = Service(runtime, registry, cred[1], cred[2], None, None, package, None)
    /\ packageJson = "noTracer"
    /\ requirements = Disk({}, "missing")

Init ==
    /\ InitNodejs \/ InitPython \/ InitUnsupported
    /\ Constructed

\* the atoms handler strings are drawn from in the handler-parsing specification
Alphabet == { "a", DOT, SLASH }

\* every non-empty handler string of at most n atoms
Strings(n) == UNION { [ 1..k -> Alphabet ] : k \in 1..n }

\* the handlers the comments of createWrapped*Function and the tests name
Examples ==
    { <<"functions", SLASH, "hello", DOT, "world", DOT, "handler">>,
      <<"foo", DOT, "bar", SLASH, "zoo", DOT, "handler">>,
      <<"foo", SLASH, "foo", SLASH, "bar", DOT, "handler">> }

\* one function whose handler is any string, on a project that lets a wrap
\* pass and a cleanup go through
InitParse ==
    /\ \E h \in Strings(MaxLen) \cup Examples,
          runtime \in { <<"nodejs", "12", DOT, "x">>, <<"python", "3", DOT, "7">> } :
            service = Service(runtime, Registry(<< <<"f">> >>, << h >>, << None >>),
                              Some(<<"test-token">>), None, None, None, None, None)
    /\ packageJson = "noTracer"
    /\ requirements = Disk({}, "missing")
    /\ Constructed

Next ==
    \/ AfterPackageInitialize
    \/ AfterDeployFunctionInitialize
    \/ InstallLumigoNodejs
    \/ EnsureLumigoPythonIsInstalled
    \/ CreateWrappedFunction
    \/ SetHandler
    \/ UpdateInclude
    \/ AfterCreateDeploymentArtifacts
    \/ CleanFolder
    \/ UninstallLumigoNodejs

Spec == Init /\ [][Next]_vars

\* the hooks applied to arbitrary handler strings
SpecParse == InitParse /\ [][Next]_vars

\* a project that asks for layers: custom.lumigo.useLayers = true
InitLayers ==
    /\ \E runtime \in { <<"nodejs", "12", DOT, "x">>, <<"python", "3", DOT, "7">> },
          registry \in Registries, setup \in NodeSetups, package \in Packages :
            /\ service = Service(runtime, registry, Some(<<"test-token">>), None,
                                 setup[2], None, package, Some(TRUE))
            /\ packageJson = setup[1]
    /\ requirements = Disk({}, "missing")
    /\ Constructed

SpecLayers == InitLayers /\ [][Next]_vars

-----------------------------------------------------------------------------
(* What the specification says, stated without the operators of the plugin *)

HasDot(h) == \E i \in 1..Len(h) : h[i] = DOT

\* the position of the final "." of h
FinalDot(h) ==
    CHOOSE i \in 1..Len(h) : h[i] = DOT /\ \A j \in (i + 1)..Len(h) : h[j] # DOT

\* the text before, and after, the final "." of h
TextBeforeFinalDot(h) == [ k \in 1..(FinalDot(h) - 1) |-> h[k] ]

TextAfterFinalDot(h) == [ k \in 1..(Len(h) - FinalDot(h)) |-> h[FinalDot(h) + k] ]

\* h with every "/" turned into "."
SlashesToDots(h) == [ k \in 1..Len(h) |-> IF h[k] = SLASH THEN DOT ELSE h[k] ]

\* the extension of the wrappers of a runtime family
Ext(family) == IF family = "nodejs" THEN "js" ELSE "py"

\* <servicePath>/_lumigo/<localName>.<ext>, relative to the service path
ArtifactPath(localName, ext) == <<"_lumigo", SLASH>> \o localName \o << DOT, ext >>

\* the runtime family of provider.runtime
Family(svc) ==
    IF Len(svc.runtime) >= 1 /\ svc.runtime[1] = "nodejs" THEN "nodejs"
    ELSE IF Len(svc.runtime) >= 2 /\ svc.runtime[1] = "python" /\ svc.runtime[2] = "3"
         THEN "python"
    ELSE "unsupported"

Declared(svc) == { svc.names[i] : i \in 1..Len(svc.names) }

\* the declared functions a name subset selects (all of them without a subset)
Selected(svc, functionNames) ==
    IF functionNames = None THEN Declared(svc)
    ELSE { n \in Declared(svc) :
             \E i \in 1..Len(Get(functionNames)) : Get(functionNames)[i] = Some(n) }

OptedOut(svc, n) == svc.functions[n].lumigo = Disabled

\* the eligible functions of a pass: selected, on a supported runtime, not opted out
Eligible(svc, functionNames) ==
    IF Family(svc) = "unsupported" THEN {}
    ELSE { n \in Selected(svc, functionNames) : ~OptedOut(svc, n) }

\* the events of the running (or last) hook with a given operation
Events(op) == { i \in 1..Len(trace) : trace[i].op = op }

WrittenPaths == { trace[i].arg : i \in Events("outputFile") }

\* a wrap pass has run to its end without an error
WrapSucceeded == pc = "idle" /\ call.op = "wrap" /\ outcome = "returned"

-----------------------------------------------------------------------------
(* Claims                                                                  *)

\* C1: for every handler string with at least one ".", whatever its mix of
\* "." and "/", the wrapper written for it names as function the text after
\* the final "." and as module the text before it, so that
\* module + "." + function is the handler string again
C1_HandlerParse ==
    pc = "assign" =>
        LET f == call.functions[call.i]
            h == f.handler
            c == folder[ArtifactPath(f.localName, Ext(call.runtime))]
        IN  HasDot(h) =>
              /\ c.imported = TextAfterFinalDot(h)
              /\ c.exported = TextAfterFinalDot(h)
              /\ c.lang = "js" =>
                    /\ c.imports = << DOT, DOT, SLASH >> \o TextBeforeFinalDot(h)
                    /\ TextBeforeFinalDot(h) \o << DOT >> \o c.imported = h
              /\ c.lang = "py" => c.imports = SlashesToDots(TextBeforeFinalDot(h))

\* C2: after a successful wrap pass every eligible function has its artifact
\* written to _lumigo/<localName>.<js|py> and its handler is
\* _lumigo/<localName>.<the function name of its handler before the pass>
C2_ArtifactAndHandler ==
    WrapSucceeded =>
        \A n \in Eligible(pre, call.functionNames) :
            LET h == pre.functions[n].handler
            IN  /\ ArtifactPath(n, Ext(Family(pre))) \in WrittenPaths
                /\ ArtifactPath(n, Ext(Family(pre))) \in DOMAIN folder
                /\ HasDot(h) =>
                     service.functions[n].handler =
                        <<"_lumigo", SLASH>> \o n \o << DOT >> \o TextAfterFinalDot(h)

\* C3: a function declared with lumigo.enabled = false is never wrapped: no
\* wrap pass writes a file for it or changes its handler, and the functions
\* a pass over all functions wraps are the declared functions without the flag
C3_OptOutNeverWrapped ==
    call.op = "wrap" =>
        /\ \A n \in Declared(pre) :
              OptedOut(pre, n) =>
                 /\ ArtifactPath(n, Ext(Family(pre))) \notin WrittenPaths
                 /\ service.functions[n].handler = pre.functions[n].handler
        /\ (WrapSucceeded /\ call.functionNames = None /\ Family(pre) # "unsupported") =>
              WrittenPaths = { ArtifactPath(n, Ext(Family(pre))) :
                                 n \in { m \in Declared(pre) : ~OptedOut(pre, m) } }

\* the three ways the claims name for a pass to have nothing to wrap
NothingToWrap(svc, functionNames) ==
    \/ Family(svc) = "unsupported"
    \/ Declared(svc) = {}
    \/ Selected(svc, functionNames) = {}

C5_TokenRequired ==
    ( /\ call.op = "wrap"
      /\ Eligible(pre, call.functionNames) # {}
      /\ (pre.token = None \/ pre.token = Some(<< >>)) ) =>
        /\ pc = "idle"
        /\ outcome = "Unable to find token"
        /\ trace = << >>
        /\ service = pre

InstallCommands ==
    { <<"npm install --no-save @lumigo/tracer@latest">>,
      <<"yarn add @lumigo/tracer@latest">> }

UninstallCommands ==
    { <<"npm uninstall @lumigo/tracer">>, <<"yarn remove @lumigo/tracer">> }

\* the commands the running (or last) hook gave to execSync
Executed(commands) ==
    { i \in Events("execSync") : trace[i].arg \in commands }

\* the project manifest lists @lumigo/tracer as a dependency
Listed == packageJson = "hasTracer"

\* the configured package manager is npm or yarn, in any letter case
KnownPackageManager(svc) ==
    svc.nodePackageManager \in { None, Some("npm"), Some("NPM"), Some("yarn"), Some("Yarn") }

C7_Cleanup ==
    ( /\ call.op = "cleanup"
      /\ Eligible(pre, None) # {} ) =>
        /\ pc \in { "idle", "uninstall" } =>
              /\ folder = << >>
              /\ \E i \in Events("remove") : trace[i].arg = <<"_lumigo">>
        /\ \A i \in Events("execSync") :
              /\ trace[i].arg \in UninstallCommands
              /\ Family(pre) = "nodejs"
              /\ ~Listed
        /\ Family(pre) = "python" => Events("execSync") = {}

C7_Witness ==
    /\ call.op = "cleanup"
    /\ pc = "idle"
    /\ outcome = "returned"
    /\ Family(pre) = "nodejs"
    /\ Executed(UninstallCommands) # {}
    /\ folder = << >>
    /\ passes = 2
    /\ Len(execLog) = 2

\* C8 as claimed: an uninstall command is executed only if the instance
\* executed an install command earlier and has not undone it yet
C8_UninstallOnlyAfterInstall ==
    \A i \in 1..Len(execLog) :
        execLog[i] \in UninstallCommands =>
            Cardinality({ j \in 1..(i - 1) : execLog[j] \in InstallCommands })
              > Cardinality({ j \in 1..(i - 1) : execLog[j] \in UninstallCommands })

\* C8 as amended: what the instance remembers is the answer of its first
\* look at the manifest; an uninstall command is executed only if that
\* answer is "not listed", whether or not the instance installed anything
C8_UninstallFollowsFirstCheck ==
    /\ (\E i \in 1..Len(execLog) : execLog[i] \in UninstallCommands) =>
          /\ isNodeTracerInstalledMemo = Some(FALSE)
          /\ ~Listed
    /\ isNodeTracerInstalledMemo # None => isNodeTracerInstalledMemo = Some(Listed)

C8_Witness ==
    /\ Len(execLog) = 1
    /\ execLog[1] \in UninstallCommands
    /\ isNodeTracerInstalledMemo = Some(FALSE)
    /\ pc = "idle"

\* a requirements file that is missing or does not mention lumigo_tracer
Bad(file) ==
    \/ file \notin DOMAIN requirements
    \/ requirements[file] # "lumigo_tracer"

HasSlash(h) == \E i \in 1..Len(h) : h[i] = SLASH

\* <directory of the handler>/requirements.txt
DirectoryFile(h) ==
    IF HasSlash(h)
    THEN LET last == CHOOSE i \in 1..Len(h) :
                        h[i] = SLASH /\ \A j \in (i + 1)..Len(h) : h[j] # SLASH
         IN  [ k \in 1..last |-> h[k] ] \o <<"requirements", DOT, "txt">>
    ELSE <<"requirements", DOT, "txt">>

Individually(svc) == svc.package # None /\ Get(svc.package).individually

\* the requirements files that apply to the functions of a set
ApplicableFiles(svc, names) ==
    IF svc.requirementsFileName # None THEN { Get(svc.requirementsFileName) }
    ELSE IF ~Individually(svc) THEN { <<"requirements", DOT, "txt">> }
    ELSE { DirectoryFile(svc.functions[n].handler) : n \in names }

\* C9: in a python3 wrap pass with a non-empty eligible set, when a
\* requirements file that applies is missing or does not mention
\* lumigo_tracer, the pass ends in an error and nothing is generated: no
\* artifact written, no handler rewritten, include list unchanged
C9_RequirementsAbort ==
    ( /\ call.op = "wrap"
      /\ Family(pre) = "python"
      /\ Eligible(pre, call.functionNames) # {}
      /\ \E f \in ApplicableFiles(pre, Eligible(pre, call.functionNames)) : Bad(f) ) =>
        /\ pc \in { "ensure", "idle" }
        /\ pc = "idle" => outcome \in { "Unable to find token", "not found", "not installed" }
        /\ WrittenPaths = {}
        /\ service = pre

C9_Witness ==
    /\ call.op = "wrap"
    /\ Family(pre) = "python"
    /\ pc = "idle"
    /\ outcome = "not installed"
    /\ Len(trace) = 4

\* the file names given to fs.pathExistsSync by the running (or last) hook
Checked ==
    LET e == SelectSeq(trace, LAMBDA x : x.op = "pathExistsSync")
    IN  [ i \in 1..Len(e) |-> e[i].arg ]

IsPrefix(s, t) == Len(s) <= Len(t) /\ s = SubSeq(t, 1, Len(s))

\* the python verification of the running (or last) wrap pass went through
Verified ==
    /\ Len(call.functions) > 0
    /\ pre.token # None
    /\ pc # "ensure"
    /\ outcome \notin { "not found", "not installed" }

\* C10: the requirements file a python wrap pass checks is the override
\* file name whenever one is configured (in both packaging modes, and then
\* no other file); else the one global requirements.txt when functions are
\* not packaged individually; else, function by function and once each, the
\* requirements.txt in the directory of the function's handler (the checks
\* stop at the first file that fails)
C10_WhichRequirements ==
    (call.op = "wrap" /\ Family(pre) = "python") =>
        LET perFunction == [ i \in 1..Len(pre.names) |->
                               DirectoryFile(pre.functions[pre.names[i]].handler) ]
        IN  IF pre.requirementsFileName # None
            THEN /\ \A i \in 1..Len(Checked) : Checked[i] = Get(pre.requirementsFileName)
                 /\ Verified => Len(Checked) >= 1
            ELSE IF ~Individually(pre)
            THEN /\ IsPrefix(Checked, << <<"requirements", DOT, "txt">> >>)
                 /\ Verified => Len(Checked) = 1
            ELSE /\ IsPrefix(Checked, perFunction)
                 /\ Verified => Checked = perFunction

C10_Witness ==
    /\ WrapSucceeded
    /\ Family(pre) = "python"
    /\ Checked = << <<"functions", SLASH, "hello", SLASH, "requirements", DOT, "txt">>,
                    <<"functions", SLASH, "world", SLASH, "requirements", DOT, "txt">> >>

\* C11: after a successful wrap pass with a non-empty eligible set, a service
\* with a package section has package.include equal to the entries it held
\* before the pass, in their order, followed by the glob "_lumigo/*" (the
\* list is created when absent); a service without a package section gets none
C11_IncludeGlob ==
    (WrapSucceeded /\ Eligible(pre, call.functionNames) # {}) =>
        IF pre.package = None THEN service.package = None
        ELSE /\ service.package # None
             /\ Get(service.package).individually = Get(pre.package).individually
             /\ Get(service.package).include # None
             /\ Get(Get(service.package).include) =
                   GetOr(Get(pre.package).include, << >>) \o << <<"_lumigo/*">> >>

C11_Witness ==
    /\ WrapSucceeded
    /\ Eligible(pre, call.functionNames) # {}
    /\ pre.package # None
    /\ Get(pre.package).include = Some(<< <<"node_modules/**/*">> >>)
    /\ Get(service.package).include = Some(<< <<"node_modules/**/*">>, <<"_lumigo/*">> >>)

\* the fixed entry point a layer supplies for a runtime family
LayerHandler(family) ==
    IF family = "nodejs" THEN <<"lumigo-auto-instrument", DOT, "handler">>
    ELSE << SLASH, "opt", SLASH, "python", SLASH, "lumigo_tracer", DOT, "_handler" >>

UseLayers(svc) == svc.useLayers = Some(TRUE)

\* C12: with useLayers = true, after a wrap pass every eligible function has
\* the layer entry point of its runtime family as handler, exactly one layer
\* attached and LUMIGO_ORIGINAL_HANDLER holding its handler of before the
\* pass; the other functions have no layer and no environment
C12_LayerMode ==
    (WrapSucceeded /\ UseLayers(pre) /\ Family(pre) # "unsupported") =>
        \A n \in Declared(pre) :
            LET f == service.functions[n]
            IN  IF n \in Eligible(pre, call.functionNames)
                THEN /\ f.handler = LayerHandler(Family(pre))
                     /\ f.layers # None
                     /\ Len(Get(f.layers)) = 1
                     /\ f.environment # None
                     /\ "LUMIGO_ORIGINAL_HANDLER" \in DOMAIN Get(f.environment)
                     /\ Get(f.environment)["LUMIGO_ORIGINAL_HANDLER"] =
                           pre.functions[n].handler
                ELSE /\ f.layers = None
                     /\ f.environment = None

\* C13: with useLayers = true neither a wrap pass nor a cleanup executes a
\* command, and a wrap pass writes no file
C13_LayerModeNoLocalWork ==
    UseLayers(pre) =>
        /\ Events("execSync") = {}
        /\ Events("outputFile") = {}
        /\ execLog = << >>
        /\ folder = << >>

\* the outputFile calls of the running (or last) hook for the artifact of n
Writes(n) ==
    { i \in Events("outputFile") : trace[i].arg = ArtifactPath(n, Ext(Family(pre))) }

\* C14: a wrap pass given a name subset leaves every declared function
\* outside the subset alone (handler unchanged, no artifact), and when it
\* succeeds it has written exactly one artifact for each function of the
\* subset that is declared (and not opted out); without a subset that is
\* every declared function
C14_SubsetOnly ==
    call.op = "wrap" =>
        /\ \A n \in Declared(pre) \ Selected(pre, call.functionNames) :
              /\ Writes(n) = {}
              /\ \A i \in Events("setHandler") : trace[i].arg # n
              /\ service.functions[n].handler = pre.functions[n].handler
        /\ (WrapSucceeded /\ Family(pre) # "unsupported") =>
              \A n \in Eligible(pre, call.functionNames) :
                  /\ Cardinality(Writes(n)) = 1
                  /\ \E i \in Events("setHandler") : trace[i].arg = n

C14_Witness ==
    /\ WrapSucceeded
    /\ call.functionNames # None
    /\ Cardinality(Declared(pre)) >= 2
    /\ Cardinality(WrittenPaths) = 1
    /\ \E n \in Declared(pre) :
          /\ n \notin Selected(pre, call.functionNames)
          /\ service.functions[n].handler = pre.functions[n].handler
    /\ \E n \in Selected(pre, call.functionNames) : Cardinality(Writes(n)) = 1

Contains(text, sub) ==
    \E i \in 0..(Len(text) - Len(sub)) : SubSeq(text, i + 1, i + Len(sub)) = sub

Mentions(text, atom) == \E i \in 1..Len(text) : text[i] = atom

\* C16: the text of a nodejs wrapper holds token:'<token>'; it holds
\* edgeHost:'<edgeHost>' when edgeHost is configured and no edgeHost entry
\* when it is not
C16_NodeTracerParameters ==
    (pc = "assign" /\ call.runtime = "nodejs") =>
        LET f == call.functions[call.i]
            c == folder[ArtifactPath(f.localName, "js")]
        IN  /\ Contains(c.tracer, <<"token", ":", "'">> \o Get(pre.token) \o <<"'">>)
            /\ pre.edgeHost # None =>
                  Contains(c.tracer, <<"edgeHost", ":", "'">> \o Get(pre.edgeHost) \o <<"'">>)
            /\ pre.edgeHost = None => ~Mentions(c.tracer, "edgeHost")

\* C17: the text of a python wrapper builds the decorator with the token and,
\* when edgeHost is configured, with that edgeHost; the decorated function
\* has the name of the imported one, takes (event, context) and returns
\* what the original handler returns for them
C17_PythonTracer ==
    (pc = "assign" /\ call.runtime = "python") =>
        LET f == call.functions[call.i]
            c == folder[ArtifactPath(f.localName, "py")]
        IN  /\ Contains(c.tracer, <<"token", "=", "'">> \o Get(pre.token) \o <<"'">>)
            /\ pre.edgeHost # None => Contains(c.tracer, Get(pre.edgeHost))
            /\ c.exported = c.imported
            /\ c.params = << <<"event">>, <<"context">> >>
            /\ c.returns = <<"userHandler", "(", "event", ",", " ", "context", ")">>

\* no "/" follows the final "." of h: the function name of h is a name
NameAfterFinalDot(h) == \A j \in (FinalDot(h) + 1)..Len(h) : h[j] # SLASH

C19_DotlessHandlerIsError ==
    call.op = "wrap" =>
        \A n \in Eligible(pre, call.functionNames) :
            ~HasDot(pre.functions[n].handler) =>
                /\ Writes(n) = {}
                /\ service.functions[n].handler = pre.functions[n].handler
                /\ pc = "idle" => outcome # "returned"

PackageManagerError == "No Node.js package manager found"

\* a nodejs hook with a non-empty eligible set and a configured package
\* manager that is neither npm nor yarn (a wrap pass without a token ends in
\* the token error before anything else: C5)
UnknownPackageManagerCase ==
    /\ call.op \in { "wrap", "cleanup" }
    /\ Family(pre) = "nodejs"
    /\ Eligible(pre, call.functionNames) # {}
    /\ call.op = "wrap" => pre.token # None
    /\ ~KnownPackageManager(pre)

\* C20 as claimed: with a package manager that is neither npm nor yarn both
\* hooks end in the package manager error, and the wrap pass executes no
\* command, writes no file and rewrites no handler
C20_UnknownPackageManagerRejects ==
    UnknownPackageManagerCase =>
        /\ pc = "idle" => outcome = PackageManagerError
        /\ call.op = "wrap" =>
              /\ Events("execSync") = {}
              /\ WrittenPaths = {}
              /\ service = pre

\* C20 as amended: the package manager is looked at only when the manifest
\* does not list the tracer: then both hooks end in the package manager error, the wrap pass without a
\* command, a file or a rewritten handler, the cleanup after it has removed
\* the folder; with the tracer listed neither hook ends in that error
C20_RejectsWhenNotListed ==
    UnknownPackageManagerCase =>
        /\ ~Listed =>
              /\ pc = "idle" => outcome = PackageManagerError
              /\ Events("execSync") = {}
              /\ call.op = "wrap" =>
                    /\ pc \in { "install", "idle" }
                    /\ WrittenPaths = {}
                    /\ service = pre
              /\ (call.op = "cleanup" /\ pc = "idle") =>
                    /\ folder = << >>
                    /\ Events("remove") # {}
        /\ Listed => outcome # PackageManagerError

C20_Witness ==
    /\ UnknownPackageManagerCase
    /\ call.op = "wrap"
    /\ pc = "idle"
    /\ outcome = PackageManagerError
    /\ passes = 2
    /\ isNodeTracerInstalledMemo = Some(FALSE)

\* a handler that points into the folder of the wrappers
PointsIntoFolder(h) == Len(h) >= 2 /\ h[1] = "_lumigo" /\ h[2] = SLASH

\* C21: no step of a wrap pass or of a cleanup adds a declaration to the
\* registry or takes one away, and from its start to its end a cleanup
\* leaves every declaration as it was
C21_RegistryFrame ==
    [][ /\ service'.names = service.names
        /\ DOMAIN service'.functions = DOMAIN service.functions
        /\ DOMAIN service'.functions = Declared(service')
        /\ call'.op = "cleanup" => service'.functions = pre'.functions ]_vars

C21_Witness ==
    /\ call.op = "cleanup"
    /\ pc = "idle"
    /\ outcome = "returned"
    /\ passes = 2
    /\ service.functions = pre.functions
    /\ folder = << >>
    /\ \A n \in Declared(service) : PointsIntoFolder(service.functions[n].handler)
    /\ Cardinality(Declared(service)) >= 2

\* the steps of a wrap pass that come before the generation: the commands
\* and the requirements checks
Preparation == Events("execSync") \cup Events("pathExistsSync") \cup Events("readFile")

Generation == Events("outputFile") \cup Events("setHandler")

\* C22: in a wrap pass every command and requirements check comes before the
\* first write, and the generation starts only when that step went through;
\* a write is followed at once by the handler assignment of the same
\* function and by nothing else, so that no second write starts in between;
\* the include list is updated once, last, when every eligible function has
\* been written and assigned
C22_PhasesInOrder ==
    call.op = "wrap" =>
        /\ \A i \in Preparation, j \in Generation \cup Events("setInclude") : i < j
        /\ \A i \in Generation, j \in Events("setInclude") : i < j
        /\ Generation # {} =>
              /\ Family(pre) = "nodejs" =>
                    /\ isNodeTracerInstalledMemo # None
                    /\ ~Listed => Cardinality(Executed(InstallCommands)) = 1
              /\ Family(pre) = "python" =>
                    /\ Events("pathExistsSync") # {}
                    /\ \A i \in Events("pathExistsSync") : ~Bad(trace[i].arg)
        /\ \A i \in Events("outputFile") :
              i < Len(trace) =>
                  /\ trace[i + 1].op = "setHandler"
                  /\ ArtifactPath(trace[i + 1].arg, Ext(Family(pre))) = trace[i].arg
        /\ \A j \in Events("setHandler") :
              /\ j > 1
              /\ trace[j - 1].op = "outputFile"
              /\ trace[j - 1].arg = ArtifactPath(trace[j].arg, Ext(Family(pre)))
        /\ pc = "assign" <=> (trace # << >> /\ trace[Len(trace)].op = "outputFile"
                                /\ outcome = "running")
        /\ Cardinality(Events("setInclude")) <= 1
        /\ (Events("setInclude") # {} \/ WrapSucceeded) =>
              \A n \in Eligible(pre, call.functionNames) :
                  /\ Writes(n) # {}
                  /\ \E j \in Events("setHandler") : trace[j].arg = n

C22_Witness ==
    /\ WrapSucceeded
    /\ Family(pre) = "nodejs"
    /\ Len(trace) = 6
    /\ trace[1].op = "execSync"
    /\ trace[2].op = "outputFile"
    /\ trace[3].op = "setHandler"
    /\ trace[4].op = "outputFile"
    /\ trace[5].op = "setHandler"
    /\ trace[6].op = "setInclude"

\* the place of a declared function in the order of declaration
Place(svc, n) == CHOOSE i \in 1..Len(svc.names) : svc.names[i] = n

\* the running (or last) wrap pass ended in a failing write
WriteFailed == call.op = "wrap" /\ pc = "idle" /\ outcome = "outputFile failed"

\* the function whose write is the last event of the trace
LastWritten ==
    CHOOSE n \in Declared(pre) :
        trace[Len(trace)].arg = ArtifactPath(n, Ext(Family(pre)))

\* C23: when the write of a function fails the pass rejects and rolls
\* nothing back: each eligible function that came before has its file and
\* its rewritten handler, the failing one and those after it have the
\* handler they had, and the include list is as before. In no step does a
\* handler change to point into the folder unless the file of that function
\* was written in the same pass
C23_NoRollback ==
    [][ /\ WriteFailed' =>
              /\ trace'[Len(trace')].op = "outputFile"
              /\ service'.package = pre'.package
              /\ \A n \in Eligible(pre', call'.functionNames) :
                    IF Place(pre', n) < Place(pre', LastWritten')
                    THEN /\ ArtifactPath(n, Ext(Family(pre'))) \in DOMAIN folder'
                         /\ PointsIntoFolder(service'.functions[n].handler)
                         /\ \E j \in 1..Len(trace') :
                               trace'[j].op = "setHandler" /\ trace'[j].arg = n
                    ELSE service'.functions[n].handler = pre'.functions[n].handler
        /\ \A n \in Declared(service) :
              service'.functions[n].handler # service.functions[n].handler =>
                  /\ PointsIntoFolder(service'.functions[n].handler)
                  /\ trace # << >>
                  /\ trace[Len(trace)] = Ev("outputFile", ArtifactPath(n, Ext(Family(pre))))
                  /\ ArtifactPath(n, Ext(Family(pre))) \in DOMAIN folder
                  /\ outcome = "running" ]_vars

C23_Witness ==
    /\ WriteFailed
    /\ Len(trace) >= 4
    /\ pre.package # None
    /\ \E n, m \in Eligible(pre, call.functionNames) :
          /\ Place(pre, n) < Place(pre, m)
          /\ m = LastWritten
          /\ ~PointsIntoFolder(pre.functions[n].handler)
          /\ PointsIntoFolder(service.functions[n].handler)
          /\ ArtifactPath(n, Ext(Family(pre))) \in DOMAIN folder
          /\ service.functions[m].handler = pre.functions[m].handler

\* C24: in a cleanup with a non-empty eligible set the folder is removed
\* before the uninstall step starts: every command of the cleanup comes
\* after the removal, and a cleanup that ends in the package manager error or
\* in a failing command has removed the folder
C24_RemoveBeforeUninstall ==
    (call.op = "cleanup" /\ Eligible(pre, None) # {}) =>
        /\ \A j \in Events("execSync") : \E i \in Events("remove") : i < j
        /\ pc = "uninstall" =>
              /\ Events("remove") # {}
              /\ folder = << >>
        /\ (pc = "idle" /\ outcome \in { PackageManagerError, "execSync failed" }) =>
              /\ Events("remove") # {}
              /\ folder = << >>
        /\ (pc = "idle" /\ Family(pre) = "nodejs" /\ ~Listed) =>
              IF KnownPackageManager(pre)
              THEN outcome \in { "returned", "execSync failed" }
              ELSE outcome = PackageManagerError

C24_Witness ==
    /\ call.op = "cleanup"
    /\ pc = "idle"
    /\ outcome = "execSync failed"
    /\ passes = 2
    /\ Len(execLog) = 2
    /\ folder = << >>
    /\ \E n \in Declared(service) : PointsIntoFolder(service.functions[n].handler)

\* a python wrap pass over a name subset, with functions packaged
\* individually and no override file name, that is past its verification step
SubsetPassIndividually ==
    /\ call.op = "wrap"
    /\ Family(pre) = "python"
    /\ Individually(pre)
    /\ pre.requirementsFileName = None
    /\ call.functionNames # None
    /\ Eligible(pre, call.functionNames) # {}
    /\ pre.token # None
    /\ pc # "ensure"

\* C25 as claimed: such a pass checks the requirements files of the
\* functions of the subset only, and a bad file of a function outside the
\* subset does not make it fail
C25_SubsetRequirementsOnly ==
    SubsetPassIndividually =>
        /\ \A i \in 1..Len(Checked) :
              \E n \in Selected(pre, call.functionNames) :
                  Checked[i] = DirectoryFile(pre.functions[n].handler)
        /\ (\A n \in Selected(pre, call.functionNames) :
                ~Bad(DirectoryFile(pre.functions[n].handler)))
              => outcome \notin { "not found", "not installed" }

\* C25 as amended: such a pass checks the requirements file of every
\* declared function, those outside the subset as well: it fails, before
\* any write, as soon as the file of any declared function is bad, and it
\* goes on only when it has checked the file of each declared function
C25_AllDeclaredRequirements ==
    SubsetPassIndividually =>
        IF \E n \in Declared(pre) : Bad(DirectoryFile(pre.functions[n].handler))
        THEN /\ pc = "idle"
             /\ outcome \in { "not found", "not installed" }
             /\ WrittenPaths = {}
             /\ service = pre
        ELSE /\ outcome \notin { "not found", "not installed" }
             /\ \A n \in Declared(pre) :
                   \E i \in 1..Len(Checked) :
                       Checked[i] = DirectoryFile(pre.functions[n].handler)

C25_Witness ==
    /\ SubsetPassIndividually
    /\ pc = "idle"
    /\ outcome \in { "not found", "not installed" }
    /\ \A n \in Selected(pre, call.functionNames) :
          ~Bad(DirectoryFile(pre.functions[n].handler))
    /\ \E n \in Declared(pre) \ Selected(pre, call.functionNames) :
          Bad(DirectoryFile(pre.functions[n].handler))

\* the module a wrapper imports lies in the folder of the wrappers
ImportsFromFolder(c) ==
    IF c.lang = "js"
    THEN Len(c.imports) >= 4 /\ c.imports[4] = "_lumigo"
    ELSE Len(c.imports) >= 1 /\ c.imports[1] = "_lumigo"

\* C26: whatever the sequence of wrap passes, no file of the folder imports
\* a module of the folder, and a handler that points into the folder at the
\* start of a pass is the same at its end
C26_NeverWrapsAWrapper ==
    /\ \A f \in DOMAIN folder : ~ImportsFromFolder(folder[f])
    /\ call.op = "wrap" =>
          \A n \in Declared(pre) :
              PointsIntoFolder(pre.functions[n].handler) =>
                  service.functions[n].handler = pre.functions[n].handler

\* the number of times the glob is in package.include
GlobCount(svc) ==
    IF svc.package = None \/ Get(svc.package).include = None THEN 0
    ELSE Cardinality({ i \in 1..Len(Get(Get(svc.package).include)) :
                         Get(Get(svc.package).include)[i] = <<"_lumigo/*">> })

\* C27 as claimed: after any number of successful wrap passes on a service
\* with a package section the glob is in package.include exactly once
C27_IncludeIdempotent ==
    (WrapSucceeded /\ Len(call.functions) > 0 /\ service.package # None) =>
        GlobCount(service) = 1

\* C27 as amended: the glob is pushed once by every wrap pass that comes to
\* its end with something to wrap, and by nothing else: the list holds it
\* once after the first such pass and once more after each further one
C27_IncludeOncePerPass ==
    [][ /\ GlobCount(service') \in { GlobCount(service), GlobCount(service) + 1 }
        /\ GlobCount(service') = GlobCount(service) + 1 <=>
              /\ service.package # None
              /\ call.op = "wrap"
              /\ Len(call.functions) > 0
              /\ outcome = "running"
              /\ WrapSucceeded'
        /\ (WrapSucceeded' /\ Len(call'.functions) > 0 /\ service'.package # None) =>
              GlobCount(service') >= 1 ]_vars

C27_Witness ==
    /\ WrapSucceeded
    /\ passes = 2
    /\ GlobCount(pre) = 1
    /\ GlobCount(service) = 2

====
